---- MODULE Spec2Model ----
(***************************************************************************)
(* Model of the self-care recommendation service:                          *)
(*   - src/app/api/predict/route.ts : the CSV loader, the module-level     *)
(*     cache with its time-based refresh, findBestMatch and the GET and    *)
(*     POST handlers;                                                      *)
(*   - src/unnamed/part_000 : the form page (Home): fetchColumns on mount, *)
(*     onSubmit, and what the page renders.                                *)
(*                                                                         *)
(* JavaScript values are represented as follows.                           *)
(*   - A parsed CSV row (DataRow) is a function from column names to       *)
(*     strings. A row object reference is represented by the row's         *)
(*     position in mlData.                                                 *)
(*   - A JSON request body is a record [type, truthy, entries]; entries is *)
(*     what Object.entries gives for it (a sequence of <<key, value>>).    *)
(*   - null in a string-typed slot is JsNull; row[key] of a key the row    *)
(*     does not have is Undefined.                                         *)
(*   - A number produced by score / totalFields is a fraction              *)
(*     [num, den]; den = 0 stands for NaN (0 / 0).                         *)
(***************************************************************************)
EXTENDS Integers, Sequences, FiniteSets, TLC

VARIABLES
    file,        \* public/data.csv as it is on disk now
    now,         \* Date.now()
    cache,       \* route.ts: let cache: CacheData | null
    reqs,        \* the handler invocations in flight, one per slot
    columns,     \* Home: useState<Column[]>([])
    loading,     \* Home: useState(false)
    prediction,  \* Home: useState<string | null>(null)
    error,       \* Home: useState<string | null>(null)
    fetchPc      \* Home: where the fetchColumns effect stands

vars == <<file, now, cache, reqs, columns, loading, prediction, error, fetchPc>>

serverVars == <<file, now, cache, reqs>>

uiVars == <<columns, loading, prediction, error, fetchPc>>

(***************************************************************************)
(* Bounds of the model.                                                    *)
(***************************************************************************)
\* Handler invocations that may be in flight at once.
NumSlots == 2

\* The clock is observed at whole cache periods, up to MaxPeriods of them,
\* and up to MaxExtra milliseconds after each.
MaxPeriods == 1

MaxExtra == 1

\* Rows of the datasets findBestMatch is explored on.
MaxRows == 3

(***************************************************************************)
(* Program constants.                                                      *)
(***************************************************************************)
CACHE_DURATION == 1000 * 60 * 60

TIP == "Self-care tips that might help you out"

ErrInvalidInput == "Invalid input format"

ErrRecommendation == "Failed to generate recommendation"

ErrFormStructure == "Failed to load form structure"

ErrFetchStructure == "Failed to fetch form structure"

ErrPredictionFailed == "Prediction failed"

ErrGetPrediction == "Failed to get prediction"

JsNull == "<null>"

Undefined == "<undefined>"

(***************************************************************************)
(* Strings and their order. Array.prototype.sort() without a comparator    *)
(* orders strings by UTF-16 code units; the cell values used here are      *)
(* single letters, listed in that order.                                   *)
(***************************************************************************)
CodeUnitOrder == <<"a", "b", "c">>

Rank(s) == CHOOSE i \in 1..Len(CodeUnitOrder) : CodeUnitOrder[i] = s

StrLess(s, t) == Rank(s) < Rank(t)

\* if (row[colname]) : a string is truthy unless it is empty; undefined is not.
Truthy(s) == s # "" /\ s # Undefined /\ s # JsNull

ToSet(seq) == {seq[i] : i \in 1..Len(seq)}

\* row[key]
Get(row, key) == IF key \in DOMAIN row THEN row[key] ELSE Undefined

(***************************************************************************)
(* loadAndProcessData                                                      *)
(***************************************************************************)
\* Papa.parse(csvData, {header: true, skipEmptyLines: true}).data : one object
\* per record of the file, keyed by the header line.
PapaParse(f) == f.rows

\* Object.keys(mlData[0]) : the keys of the first row, in the header's order.
ObjectKeys(f) == SelectSeq(f.header, LAMBDA h : h \in DOMAIN PapaParse(f)[1])

\* The Set filled by the loop over the rows, as the sequence of its elements
\* in insertion order.
RECURSIVE uniqueValues(_, _, _)
uniqueValues(mlData, colname, n) ==
    IF n = 0 THEN <<>>
    ELSE LET seen == uniqueValues(mlData, colname, n - 1)
             v    == Get(mlData[n], colname)
         IN  IF Truthy(v) /\ v \notin ToSet(seen) THEN Append(seen, v) ELSE seen

\* One step of the sort: v put in its place in an already sorted sequence.
RECURSIVE InsertSorted(_, _)
InsertSorted(sorted, v) ==
    IF sorted = <<>> THEN <<v>>
    ELSE IF StrLess(v, Head(sorted)) THEN <<v>> \o sorted
    ELSE <<Head(sorted)>> \o InsertSorted(Tail(sorted), v)

RECURSIVE SortStrings(_)
SortStrings(seq) ==
    IF seq = <<>> THEN <<>>
    ELSE InsertSorted(SortStrings(Tail(seq)), Head(seq))

\* Variant: Array.from(uniqueValues) without the sort.
UnsortedOptions(mlData, colname) == uniqueValues(mlData, colname, Len(mlData))

\* Array.from(uniqueValues).sort()
Options(mlData, colname) == SortStrings(uniqueValues(mlData, colname, Len(mlData)))

\* headers.map(colname => ({name, type, options}))
ColumnInfo(headers, mlData) ==
    [i \in 1..Len(headers) |->
        [name |-> headers[i], type |-> "categorical",
         options |-> Options(mlData, headers[i])]]

NoCache == [isNull |-> TRUE, mlData |-> <<>>, columnInfo |-> <<>>, lastUpdated |-> 0]

\* The validation of lines 42-45, after a read that may itself fail.
LoadSucceeds(f) ==
    /\ f.readable
    /\ Len(PapaParse(f)) # 0
    /\ TIP \in DOMAIN PapaParse(f)[1]

\* The CacheData a successful load returns at time t.
loadAndProcessData(f, t) ==
    LET mlData  == PapaParse(f)
        headers == SelectSeq(ObjectKeys(f), LAMBDA h : h # TIP)
    IN  [isNull |-> FALSE, mlData |-> mlData,
         columnInfo |-> ColumnInfo(headers, mlData), lastUpdated |-> t]

(***************************************************************************)
(* getCachedData                                                           *)
(***************************************************************************)
\* Variant: >= in place of >.
NeedsRefreshOffByOne(c, t) == c.isNull \/ t - c.lastUpdated >= CACHE_DURATION

\* Variant: no cache check at all.
AlwaysRefresh(c, t) == TRUE

\* !cache || Date.now() - cache.lastUpdated > CACHE_DURATION
NeedsRefresh(c, t) == c.isNull \/ t - c.lastUpdated > CACHE_DURATION

(***************************************************************************)
(* findBestMatch                                                           *)
(***************************************************************************)
\* The inner loop: one point for each entry of the input the row equals.
RECURSIVE Score(_, _, _)
Score(row, inputEntries, n) ==
    IF n = 0 THEN 0
    ELSE Score(row, inputEntries, n - 1)
            + (IF Get(row, inputEntries[n][1]) = inputEntries[n][2] THEN 1 ELSE 0)

\* score / totalFields
Divide(score, totalFields) == [num |-> score, den |-> totalFields]

IsNaN(x) == x.den = 0

\* Variant: >= in place of >.
GreaterOrEqual(x, y) == ~IsNaN(x) /\ ~IsNaN(y) /\ x.num * y.den >= y.num * x.den

\* Variant: a comparison that NaN wins.
GreaterNaNWins(x, y) == IsNaN(x) \/ (~IsNaN(y) /\ x.num * y.den > y.num * x.den)

\* x > y on numbers: false as soon as one side is NaN.
Greater(x, y) == ~IsNaN(x) /\ ~IsNaN(y) /\ x.num * y.den > y.num * x.den

\* The outer loop over the first n rows: [bestMatch, maxScore] after them.
RECURSIVE BestAfter(_, _, _)
BestAfter(inputEntries, mlData, n) ==
    IF n = 0 THEN [bestMatch |-> 1, maxScore |-> [num |-> -1, den |-> 1]]
    ELSE LET prev == BestAfter(inputEntries, mlData, n - 1)
             normalizedScore ==
                 Divide(Score(mlData[n], inputEntries, Len(inputEntries)),
                        Len(inputEntries))
         IN  IF Greater(normalizedScore, prev.maxScore)
             THEN [bestMatch |-> n, maxScore |-> normalizedScore]
             ELSE prev

\* Variant: a loop that stops at the first row with any match.
FirstPositive(inputEntries, mlData) ==
    IF \E i \in 1..Len(mlData) : Score(mlData[i], inputEntries, Len(inputEntries)) > 0
    THEN CHOOSE i \in 1..Len(mlData) :
            /\ Score(mlData[i], inputEntries, Len(inputEntries)) > 0
            /\ \A j \in 1..(i - 1) : Score(mlData[j], inputEntries, Len(inputEntries)) = 0
    ELSE 1

\* The position in mlData of the row findBestMatch returns.
findBestMatch(inputEntries, mlData) ==
    BestAfter(inputEntries, mlData, Len(mlData)).bestMatch

(***************************************************************************)
(* Requests and responses                                                  *)
(***************************************************************************)
Slots == 1..NumSlots

NoBody == [type |-> "none", truthy |-> FALSE, entries |-> <<>>]

\* A body req.json() rejects.
MalformedBody == [type |-> "malformed", truthy |-> FALSE, entries |-> <<>>]

NullBody == [type |-> "null", truthy |-> FALSE, entries |-> <<>>]

\* A primitive: "string", "number" or "boolean", falsy ("", 0, false) or not.
Primitive(t, truthy) == [type |-> t, truthy |-> truthy, entries |-> <<>>]

\* An object, given by its Object.entries.
ObjectBody(entries) == [type |-> "object", truthy |-> TRUE, entries |-> entries]

\* typeof userInput
TypeOf(b) == IF b.type \in {"null", "object"} THEN "object" ELSE b.type

NoResponse ==
    [status |-> 0, success |-> FALSE, error |-> JsNull, prediction |-> JsNull,
     hasColumns |-> FALSE, columns |-> <<>>]

\* NextResponse.json({success: false, error}, {status})
ErrorResponse(status, message) ==
    [status |-> status, success |-> FALSE, error |-> message, prediction |-> JsNull,
     hasColumns |-> FALSE, columns |-> <<>>]

\* NextResponse.json({success: true, prediction})
PredictionResponse(tip) ==
    [status |-> 200, success |-> TRUE, error |-> JsNull, prediction |-> tip,
     hasColumns |-> FALSE, columns |-> <<>>]

\* NextResponse.json({success: true, columns})
ColumnsResponse(columnInfo) ==
    [status |-> 200, success |-> TRUE, error |-> JsNull, prediction |-> JsNull,
     hasColumns |-> TRUE, columns |-> columnInfo]

IdleSlot ==
    [pc |-> "idle", method |-> "none", body |-> NoBody, data |-> NoCache,
     resp |-> NoResponse]

\* Variant: the typeof test alone (typeof null is "object").
RejectsOnlyNonObjects(b) == TypeOf(b) # "object"

\* !userInput || typeof userInput !== 'object'
InvalidInput(b) == ~b.truthy \/ TypeOf(b) # "object"

\* What POST answers once it holds the dataset and the parsed body.
PostAnswer(b, mlData) ==
    IF InvalidInput(b) THEN ErrorResponse(400, ErrInvalidInput)
    ELSE PredictionResponse(mlData[findBestMatch(b.entries, mlData)][TIP])

\* The message of the handler's catch block.
CatchMessage(method) == IF method = "GET" THEN ErrFormStructure ELSE ErrRecommendation

(***************************************************************************)
(* The handlers, step by step. A handler runs without interruption up to   *)
(* its next await.                                                         *)
(***************************************************************************)
\* The handler is invoked. getCachedData runs up to its await: it either
\* returns the cache or starts loadAndProcessData (fs.readFile is pending).
Arrive(r, method, body) ==
    /\ reqs[r].pc = "idle"
    /\ reqs' = [reqs EXCEPT ![r] =
            IF NeedsRefresh(cache, now)
            THEN [IdleSlot EXCEPT !.pc = "loading", !.method = method, !.body = body]
            ELSE [IdleSlot EXCEPT !.pc = "gotData", !.method = method, !.body = body,
                                  !.data = cache]]
    /\ UNCHANGED <<file, now, cache>>

\* The read completes and the CSV passes validation: cache is assigned and
\* returned.
LoadOk(r) ==
    /\ reqs[r].pc = "loading"
    /\ LoadSucceeds(file)
    /\ cache' = loadAndProcessData(file, now)
    /\ reqs' = [reqs EXCEPT ![r].pc = "gotData", ![r].data = cache']
    /\ UNCHANGED <<file, now>>

\* Variant: a catch block that also drops the cached value.
LoadFailClearsCache(r) ==
    /\ reqs[r].pc = "loading"
    /\ ~LoadSucceeds(file)
    /\ cache' = NoCache
    /\ reqs' = [reqs EXCEPT ![r].pc = "done",
                            ![r].resp = ErrorResponse(500, CatchMessage(reqs[r].method))]
    /\ UNCHANGED <<file, now>>

\* The read or the validation throws: getCachedData rethrows, the handler's
\* catch answers 500; cache is not assigned.
LoadFail(r) ==
    /\ reqs[r].pc = "loading"
    /\ ~LoadSucceeds(file)
    /\ reqs' = [reqs EXCEPT ![r].pc = "done",
                            ![r].resp = ErrorResponse(500, CatchMessage(reqs[r].method))]
    /\ UNCHANGED <<file, now, cache>>

\* GET, after await getCachedData().
RespondGet(r) ==
    /\ reqs[r].pc = "gotData"
    /\ reqs[r].method = "GET"
    /\ reqs' = [reqs EXCEPT ![r].pc = "done",
                            ![r].resp = ColumnsResponse(reqs[r].data.columnInfo)]
    /\ UNCHANGED <<file, now, cache>>

\* POST, after await getCachedData() and await req.json().
RespondPost(r) ==
    /\ reqs[r].pc = "gotData"
    /\ reqs[r].method = "POST"
    /\ reqs' = [reqs EXCEPT ![r].pc = "done",
                            ![r].resp =
                                IF reqs[r].body.type = "malformed"
                                THEN ErrorResponse(500, ErrRecommendation)
                                ELSE PostAnswer(reqs[r].body, reqs[r].data.mlData)]
    /\ UNCHANGED <<file, now, cache>>

\* The response has been sent; the slot is free for the next request.
Collect(r) ==
    /\ reqs[r].pc = "done"
    /\ reqs' = [reqs EXCEPT ![r] = IdleSlot]
    /\ UNCHANGED <<file, now, cache>>

\* Time passes: d milliseconds.
Tick(d) ==
    /\ (now + d) \div CACHE_DURATION <= MaxPeriods
    /\ (now + d) % CACHE_DURATION <= MaxExtra
    /\ now' = now + d
    /\ UNCHANGED <<file, cache, reqs>>

\* public/data.csv is replaced, removed or restored.
FileChange(f) ==
    /\ f # file
    /\ file' = f
    /\ UNCHANGED <<now, cache, reqs>>

(***************************************************************************)
(* The form page (Home)                                                    *)
(***************************************************************************)
\* The slot of the requests that are handled one after another.
FirstSlot == CHOOSE r \in Slots : \A q \in Slots : r <= q

\* The page's fetches go through one handler invocation at a time.
UiSlot == FirstSlot

DEFAULT_HOURS == <<"Less than 1", "1 - 2", "2 - 3", "3 - 4", "More than 4">>

\* The SelectItems of one column's dropdown.
SelectItems(column) ==
    IF column.type = "categorical" THEN column.options ELSE DEFAULT_HOURS

\* What each field of the form may hold: "" (its default) or an item picked.
FieldChoices(cols) ==
    {p \in [1..Len(cols) -> {""} \cup UNION {ToSet(SelectItems(cols[i])) : i \in 1..Len(cols)}] :
        \A i \in 1..Len(cols) : p[i] \in {""} \cup ToSet(SelectItems(cols[i]))}

\* The values react-hook-form hands to onSubmit, as Object.entries sees them:
\* one entry per column, in the columns' order.
FormValues(cols) ==
    {[i \in 1..Len(cols) |-> <<cols[i].name, p[i]>>] : p \in FieldChoices(cols)}

\* What Home renders: the loading card while columns is empty, else the form.
View == IF Len(columns) = 0 THEN "LoadingCard" ELSE "Form"

\* {(prediction || error) && <Alert>...}, which is part of the form branch.
AlertShown == View = "Form" /\ (Truthy(prediction) \/ Truthy(error))

\* The text of the AlertDescription: error || prediction.
AlertText == IF Truthy(error) THEN error ELSE prediction

\* useEffect on mount: fetchColumns calls fetch('/api/predict').
Mount ==
    /\ fetchPc = "unmounted"
    /\ Arrive(UiSlot, "GET", NoBody)
    /\ fetchPc' = "awaiting"
    /\ UNCHANGED <<columns, loading, prediction, error>>

\* fetchColumns after await response.json().
FetchColumnsResolved ==
    /\ fetchPc = "awaiting"
    /\ reqs[UiSlot].pc = "done"
    /\ LET data == reqs[UiSlot].resp
       IN  IF data.success /\ data.hasColumns
           THEN columns' = data.columns /\ error' = error
           ELSE columns' = columns /\ error' = ErrFormStructure
    /\ fetchPc' = "done"
    /\ reqs' = [reqs EXCEPT ![UiSlot] = IdleSlot]
    /\ UNCHANGED <<file, now, cache, loading, prediction>>

\* fetchColumns' catch: the response did not arrive or is not JSON.
FetchColumnsRejected ==
    /\ fetchPc = "awaiting"
    /\ reqs[UiSlot].pc = "done"
    /\ error' = ErrFetchStructure
    /\ fetchPc' = "done"
    /\ reqs' = [reqs EXCEPT ![UiSlot] = IdleSlot]
    /\ UNCHANGED <<file, now, cache, columns, loading, prediction>>

\* Variant: onSubmit without setPrediction(null) and setError(null).
SubmitKeepsOldResult(values) ==
    /\ View = "Form"
    /\ ~loading
    /\ loading' = TRUE
    /\ Arrive(UiSlot, "POST", ObjectBody(values))
    /\ UNCHANGED <<columns, prediction, error, fetchPc>>

\* onSubmit up to its fetch. The form exists only in the form branch of the
\* page, and its submit button is disabled while loading.
Submit(values) ==
    /\ View = "Form"
    /\ ~loading
    /\ loading' = TRUE
    /\ prediction' = JsNull
    /\ error' = JsNull
    /\ Arrive(UiSlot, "POST", ObjectBody(values))
    /\ UNCHANGED <<columns, fetchPc>>

\* onSubmit after await response.json(), and its finally.
OnSubmitResolved ==
    /\ loading
    /\ reqs[UiSlot].pc = "done"
    /\ LET data == reqs[UiSlot].resp
       IN  IF data.success
           THEN prediction' = data.prediction /\ error' = error
           ELSE /\ error' = (IF Truthy(data.error) THEN data.error ELSE ErrPredictionFailed)
                /\ prediction' = prediction
    /\ loading' = FALSE
    /\ reqs' = [reqs EXCEPT ![UiSlot] = IdleSlot]
    /\ UNCHANGED <<file, now, cache, columns, fetchPc>>

\* onSubmit's catch, and its finally.
OnSubmitRejected ==
    /\ loading
    /\ reqs[UiSlot].pc = "done"
    /\ error' = ErrGetPrediction
    /\ loading' = FALSE
    /\ reqs' = [reqs EXCEPT ![UiSlot] = IdleSlot]
    /\ UNCHANGED <<file, now, cache, columns, fetchPc, prediction>>

(***************************************************************************)
(* The CSV files explored                                                  *)
(***************************************************************************)
Row3(q1, q2, tip) ==
    [c \in {"q1", "q2", TIP} |-> IF c = "q1" THEN q1 ELSE IF c = "q2" THEN q2 ELSE tip]

Row2(q1, tip) == [c \in {"q1", TIP} |-> IF c = "q1" THEN q1 ELSE tip]

\* Values out of order, a repeated value, an empty cell, two equal rows.
FileA ==
    [readable |-> TRUE, header |-> <<"q1", "q2", TIP>>,
     rows |-> <<Row3("b", "a", "t1"), Row3("a", "", "t2"), Row3("b", "a", "t3")>>]

\* Another dataset: the tip column first, a row with an empty tip.
FileB ==
    [readable |-> TRUE, header |-> <<TIP, "q1">>,
     rows |-> <<Row2("c", "t4"), Row2("a", "")>>]

\* No tip column.
FileNoTip ==
    [readable |-> TRUE, header |-> <<"q1", "q2">>,
     rows |-> <<[c \in {"q1", "q2"} |-> "a"]>>]

\* A header line and no record.
FileNoRows == [readable |-> TRUE, header |-> <<"q1", TIP>>, rows |-> <<>>]

\* Only the tip column: no question column.
FileTipOnly ==
    [readable |-> TRUE, header |-> <<TIP>>, rows |-> <<[c \in {TIP} |-> "t5"]>>]

\* fs.readFile rejects.
FileMissing == [readable |-> FALSE, header |-> <<>>, rows |-> <<>>]

ServerFiles == {FileA, FileB, FileTipOnly, FileNoTip, FileNoRows, FileMissing}

UiFiles == {FileA, FileB, FileTipOnly, FileMissing}

ServerBodies ==
    {MalformedBody, NullBody, Primitive("string", TRUE), Primitive("number", FALSE),
     ObjectBody(<<>>), ObjectBody(<< <<"q1", "a">>, <<"zz", "a">> >>)}

TickSteps == {1, CACHE_DURATION}

Init ==
    /\ file = FileA
    /\ now = 0
    /\ cache = NoCache
    /\ reqs = [r \in Slots |-> IdleSlot]
    /\ columns = <<>>
    /\ loading = FALSE
    /\ prediction = JsNull
    /\ error = JsNull
    /\ fetchPc = "unmounted"

(***************************************************************************)
(* The server, requests handled one after another                          *)
(***************************************************************************)
Next ==
    \/ Arrive(FirstSlot, "GET", NoBody) /\ UNCHANGED uiVars
    \/ (\E b \in ServerBodies : Arrive(FirstSlot, "POST", b)) /\ UNCHANGED uiVars
    \/ LoadOk(FirstSlot) /\ UNCHANGED uiVars
    \/ LoadFail(FirstSlot) /\ UNCHANGED uiVars
    \/ RespondGet(FirstSlot) /\ UNCHANGED uiVars
    \/ RespondPost(FirstSlot) /\ UNCHANGED uiVars
    \/ Collect(FirstSlot) /\ UNCHANGED uiVars
    \/ (\E d \in TickSteps : Tick(d)) /\ UNCHANGED uiVars
    \/ (\E f \in ServerFiles : FileChange(f)) /\ UNCHANGED uiVars

Spec == Init /\ [][Next]_vars

(***************************************************************************)
(* The server under concurrent requests                                    *)
(***************************************************************************)
ConcurrentFiles == {FileA, FileMissing}

ConcurrentBody == ObjectBody(<< <<"q1", "a">> >>)

NextConcurrent ==
    \/ (\E r \in Slots : Arrive(r, "GET", NoBody)) /\ UNCHANGED uiVars
    \/ (\E r \in Slots : Arrive(r, "POST", ConcurrentBody)) /\ UNCHANGED uiVars
    \/ (\E r \in Slots : LoadOk(r)) /\ UNCHANGED uiVars
    \/ (\E r \in Slots : LoadFail(r)) /\ UNCHANGED uiVars
    \/ (\E r \in Slots : RespondGet(r)) /\ UNCHANGED uiVars
    \/ (\E r \in Slots : RespondPost(r)) /\ UNCHANGED uiVars
    \/ (\E r \in Slots : Collect(r)) /\ UNCHANGED uiVars
    \/ (\E d \in TickSteps : Tick(d)) /\ UNCHANGED uiVars
    \/ (\E f \in ConcurrentFiles : FileChange(f)) /\ UNCHANGED uiVars

SpecConcurrent == Init /\ [][NextConcurrent]_vars

(***************************************************************************)
(* The page and the server                                                 *)
(***************************************************************************)
ServerStep ==
    \/ LoadOk(UiSlot)
    \/ LoadFail(UiSlot)
    \/ RespondGet(UiSlot)
    \/ RespondPost(UiSlot)

FetchColumnsSettles == FetchColumnsResolved \/ FetchColumnsRejected

OnSubmitSettles == OnSubmitResolved \/ OnSubmitRejected

NextUI ==
    \/ Mount
    \/ LoadOk(UiSlot) /\ UNCHANGED uiVars
    \/ LoadFail(UiSlot) /\ UNCHANGED uiVars
    \/ RespondGet(UiSlot) /\ UNCHANGED uiVars
    \/ RespondPost(UiSlot) /\ UNCHANGED uiVars
    \/ FetchColumnsResolved
    \/ FetchColumnsRejected
    \/ \E values \in FormValues(columns) : Submit(values)
    \/ OnSubmitResolved
    \/ OnSubmitRejected
    \/ (\E d \in TickSteps : Tick(d)) /\ UNCHANGED uiVars
    \/ (\E f \in UiFiles : FileChange(f)) /\ UNCHANGED uiVars

\* Node runs a handler's continuation once its await settles, and a fetch
\* settles: it resolves or it rejects.
SpecUI ==
    /\ Init
    /\ [][NextUI]_vars
    /\ WF_vars(ServerStep /\ UNCHANGED uiVars)
    /\ WF_vars(FetchColumnsSettles)
    /\ WF_vars(OnSubmitSettles)

(***************************************************************************)
(* POST and findBestMatch over every small dataset and input               *)
(***************************************************************************)
CellValues == {"a", "b"}

\* The dataset whose i-th row holds cells[i] and the tip "t<i>".
DataSet(cells) ==
    [readable |-> TRUE, header |-> <<"q1", "q2", TIP>>,
     rows |-> [i \in 1..Len(cells) |->
                  Row3(cells[i][1], cells[i][2], "t" \o ToString(i))]]

MatchFiles ==
    {DataSet(cells) :
        cells \in UNION {[1..n -> CellValues \X CellValues] : n \in 0..MaxRows}}

\* Two columns of the dataset and a key that is no column.
InputKeys == <<"q1", "q2", "zz">>

\* The objects over InputKeys: each key absent ("-") or given a value.
InputObjects ==
    {SelectSeq([i \in 1..Len(InputKeys) |-> <<InputKeys[i], pick[i]>>],
               LAMBDA e : e[2] # "-") :
        pick \in [1..Len(InputKeys) -> CellValues \cup {"-"}]}

MatchBodies == {ObjectBody(entries) : entries \in InputObjects} \cup {NullBody}

InitMatch ==
    /\ file \in MatchFiles
    /\ now = 0
    /\ cache = NoCache
    /\ reqs = [r \in Slots |-> IdleSlot]
    /\ columns = <<>>
    /\ loading = FALSE
    /\ prediction = JsNull
    /\ error = JsNull
    /\ fetchPc = "unmounted"

NextMatch ==
    \/ (\E b \in MatchBodies : Arrive(FirstSlot, "POST", b)) /\ UNCHANGED uiVars
    \/ LoadOk(FirstSlot) /\ UNCHANGED uiVars
    \/ LoadFail(FirstSlot) /\ UNCHANGED uiVars
    \/ RespondPost(FirstSlot) /\ UNCHANGED uiVars

SpecMatch == InitMatch /\ [][NextMatch]_vars

(***************************************************************************)
(* Properties                                                              *)
(***************************************************************************)
\* The number of entries of the input a row equals, counted directly: an
\* entry whose key is no column of the row is never a match.
MatchCount(inputEntries, row) ==
    Cardinality({k \in 1..Len(inputEntries) :
        /\ inputEntries[k][1] \in DOMAIN row
        /\ row[inputEntries[k][1]] = inputEntries[k][2]})

\* A POST that got the dataset, read an object as its body and has answered.
AnsweredMatch(r) ==
    /\ reqs[r].pc = "done"
    /\ reqs[r].method = "POST"
    /\ ~reqs[r].data.isNull
    /\ reqs[r].body.type = "object"

\* The rows of r's dataset whose tip is the prediction r answered.
AnsweredRows(r) ==
    {i \in 1..Len(reqs[r].data.mlData) :
        reqs[r].data.mlData[i][TIP] = reqs[r].resp.prediction}

\* C1: for a non-empty dataset and an input with at least one field, POST
\* answers the tip of a row returned by findBestMatch whose count of fields
\* equal to the user's values (the score's numerator; the denominator, the
\* number of supplied fields, is the same for every row) is maximal: no row
\* of the dataset has a strictly higher count. Keys that are no column are
\* never a match.
C1_BestMatchIsMaximal ==
    \A r \in Slots :
        (AnsweredMatch(r) /\ Len(reqs[r].body.entries) >= 1) =>
            LET e  == reqs[r].body.entries
                ml == reqs[r].data.mlData
            IN  /\ reqs[r].resp.success
                /\ \E i \in AnsweredRows(r) :
                      \A j \in 1..Len(ml) :
                          MatchCount(e, ml[j]) * Len(e) <= MatchCount(e, ml[i]) * Len(e)

\* C1's case: three supplied fields, one of them no column; the best row is
\* not the first and matches two of the three.
C1_Witness ==
    \E r \in Slots :
        /\ AnsweredMatch(r)
        /\ Len(reqs[r].body.entries) = 3
        /\ Len(reqs[r].data.mlData) = 3
        /\ AnsweredRows(r) = {3}
        /\ MatchCount(reqs[r].body.entries, reqs[r].data.mlData[3]) = 2
        /\ MatchCount(reqs[r].body.entries, reqs[r].data.mlData[1]) = 1
        /\ MatchCount(reqs[r].body.entries, reqs[r].data.mlData[2]) = 0

\* C9: among the rows that reach the maximal score for a non-empty input,
\* the first in dataset order is returned (the first row when every score is
\* 0), and the POST answers success = true with that row's tip.
C9_FirstOfTheBest ==
    \A r \in Slots :
        (AnsweredMatch(r) /\ Len(reqs[r].body.entries) >= 1) =>
            LET e  == reqs[r].body.entries
                ml == reqs[r].data.mlData
                best == {i \in 1..Len(ml) :
                            \A j \in 1..Len(ml) : MatchCount(e, ml[j]) <= MatchCount(e, ml[i])}
                first == CHOOSE i \in best : \A j \in best : i <= j
            IN  /\ reqs[r].resp.status = 200
                /\ reqs[r].resp.success
                /\ reqs[r].resp.prediction = ml[first][TIP]
                /\ ((\A j \in 1..Len(ml) : MatchCount(e, ml[j]) = 0)
                        => reqs[r].resp.prediction = ml[1][TIP])

\* C9's case: the second and the third row tie at the maximal score, above
\* the first row, and the second row's tip is answered.
C9_Witness ==
    \E r \in Slots :
        /\ AnsweredMatch(r)
        /\ Len(reqs[r].data.mlData) = 3
        /\ MatchCount(reqs[r].body.entries, reqs[r].data.mlData[1]) = 0
        /\ MatchCount(reqs[r].body.entries, reqs[r].data.mlData[2]) = 1
        /\ MatchCount(reqs[r].body.entries, reqs[r].data.mlData[3]) = 1
        /\ AnsweredRows(r) = {2}

\* C10: for the empty object every score is 0 / 0, never greater than the
\* maximum, so findBestMatch keeps its initial value: the POST answers
\* success = true with the tip of the first row, not an error.
C10_EmptyInputFirstRow ==
    \A r \in Slots :
        (AnsweredMatch(r) /\ Len(reqs[r].body.entries) = 0) =>
            /\ reqs[r].resp.status = 200
            /\ reqs[r].resp.success
            /\ reqs[r].resp.error = JsNull
            /\ reqs[r].resp.prediction = reqs[r].data.mlData[1][TIP]

\* C10's case: {} posted against a dataset of several rows.
C10_Witness ==
    \E r \in Slots :
        /\ AnsweredMatch(r)
        /\ reqs[r].body = ObjectBody(<<>>)
        /\ Len(reqs[r].data.mlData) >= 2
        /\ AnsweredRows(r) = {1}

\* getCachedData's check, written out: the cache holds a value loaded at T
\* and t - T <= CACHE_DURATION.
Fresh == ~cache.isNull /\ now - cache.lastUpdated <= CACHE_DURATION

\* Request r's handler is invoked in this step (its getCachedData runs).
Invoked(r) == reqs[r].pc = "idle" /\ reqs'[r].pc # "idle"

\* Request r's load ends in this step.
LoadEnds(r) == reqs[r].pc = "loading" /\ reqs'[r].pc # "loading"

\* A request invoked while the cache is fresh is served the cached value
\* and no read of the file is started.
ServedFromCache(r) ==
    (Invoked(r) /\ Fresh) =>
        /\ reqs'[r].pc = "gotData"
        /\ reqs'[r].data = cache
        /\ cache' = cache

\* C2 as stated: requests handled one after another; within CACHE_DURATION of
\* a successful load at T a request is served from the cache without a read,
\* and the first request after that reloads the file and replaces the cache
\* with a value whose lastUpdated is the reload time.
C2_ReloadAlwaysReplaces ==
    [][\A r \in Slots :
        /\ ServedFromCache(r)
        /\ (Invoked(r) /\ ~Fresh) => reqs'[r].pc = "loading"
        /\ (LoadEnds(r) /\ ~cache.isNull) =>
              /\ ~cache'.isNull
              /\ cache'.lastUpdated = now
              /\ reqs'[r].data = cache']_vars

\* C2, amended: as above, but the reload replaces the cache only if it
\* succeeds (the value then holds the file's rows and the time the load
\* completed); a reload that fails leaves the expired value in place.
C2_ReloadReplacesOnSuccess ==
    [][\A r \in Slots :
        /\ ServedFromCache(r)
        /\ (Invoked(r) /\ ~Fresh) => reqs'[r].pc = "loading"
        /\ (LoadEnds(r) /\ reqs'[r].pc = "gotData") =>
              /\ ~cache'.isNull
              /\ cache'.lastUpdated = now
              /\ cache'.mlData = file.rows
              /\ reqs'[r].data = cache'
        /\ (LoadEnds(r) /\ reqs'[r].pc # "gotData") => cache' = cache]_vars

\* C2's case: a request holds the value its own load put in the cache one
\* millisecond after a whole cache period, the first instant a value loaded
\* at time 0 has expired.
C2_Witness ==
    \E r \in Slots :
        /\ reqs[r].pc = "gotData"
        /\ reqs[r].data = cache
        /\ now = CACHE_DURATION + 1
        /\ cache.lastUpdated = now

\* C3 as stated: at most one load is in flight at any time.
C3_SingleLoadInFlight == Cardinality({r \in Slots : reqs[r].pc = "loading"}) <= 1

\* C3, amended: a request starts a load exactly when its own check finds the
\* cache empty or expired, whether or not another load is in flight; loads
\* are not shared between concurrent requests.
C3_LoadPerStaleCheck ==
    [][\A r \in Slots :
        Invoked(r) =>
            ((reqs'[r].pc = "loading")
                <=> (cache.isNull \/ now - cache.lastUpdated > CACHE_DURATION))]_vars

\* C3's case: two requests, each with a load of its own in flight, over an
\* expired cache.
C3_Witness ==
    /\ Cardinality({r \in Slots : reqs[r].pc = "loading"}) >= 2
    /\ ~cache.isNull
    /\ now - cache.lastUpdated > CACHE_DURATION

\* options is strictly increasing in code-unit order: sorted, no duplicates.
StrictlySorted(options) ==
    \A i, j \in 1..Len(options) : i < j => Rank(options[i]) < Rank(options[j])

\* columnInfo describes mlData: one entry per key of the rows other than the
\* tip column, each with exactly the non-empty values of its column.
Describes(columnInfo, mlData) ==
    LET questions == DOMAIN mlData[1] \ {TIP}
    IN  /\ Len(columnInfo) = Cardinality(questions)
        /\ {columnInfo[i].name : i \in 1..Len(columnInfo)} = questions
        /\ \A i \in 1..Len(columnInfo) :
              /\ StrictlySorted(columnInfo[i].options)
              /\ ToSet(columnInfo[i].options)
                    = {mlData[k][columnInfo[i].name] : k \in 1..Len(mlData)} \ {""}

\* C4: in every cache value (the cache, and the value a handler holds)
\* columnInfo describes the mlData of the same value, and the columns a GET
\* answers describe the dataset of the value it was given.
C4_ColumnInfoDescribesData ==
    /\ ~cache.isNull => Describes(cache.columnInfo, cache.mlData)
    /\ \A r \in Slots :
          /\ ~reqs[r].data.isNull => Describes(reqs[r].data.columnInfo, reqs[r].data.mlData)
          /\ (reqs[r].pc = "done" /\ reqs[r].method = "GET" /\ reqs[r].resp.success) =>
                /\ reqs[r].resp.hasColumns
                /\ Describes(reqs[r].resp.columns, reqs[r].data.mlData)

\* C4's case: a GET answered from a dataset with a repeated value, an empty
\* cell and values out of order.
C4_Witness ==
    \E r \in Slots :
        /\ reqs[r].pc = "done"
        /\ reqs[r].method = "GET"
        /\ reqs[r].resp.success
        /\ reqs[r].data.mlData = FileA.rows
        /\ Len(reqs[r].resp.columns) = 2
        /\ reqs[r].resp.columns[1].options = <<"a", "b">>
        /\ reqs[r].resp.columns[2].options = <<"a">>

\* The file cannot be loaded: unreadable, no rows, or no tip column in the
\* first row.
FileFails ==
    \/ ~file.readable
    \/ Len(file.rows) = 0
    \/ TIP \notin DOMAIN file.rows[1]

\* C7: a load that fails leaves the cache as it was; its request is answered
\* 500 with success = false and nothing of the expired value; and a request
\* invoked while the cache is still empty or expired starts a load again.
C7_FailedLoadLeavesCache ==
    [][\A r \in Slots :
        /\ (LoadEnds(r) /\ FileFails) =>
              /\ cache' = cache
              /\ reqs'[r].pc = "done"
              /\ reqs'[r].resp.status = 500
              /\ ~reqs'[r].resp.success
              /\ reqs'[r].resp.prediction = JsNull
              /\ ~reqs'[r].resp.hasColumns
              /\ reqs'[r].data.isNull
        /\ (Invoked(r) /\ (cache.isNull \/ now - cache.lastUpdated > CACHE_DURATION)) =>
              reqs'[r].pc = "loading"]_vars

\* C7's case: a request answered 500 while the cache still holds the expired
\* value, and the file still cannot be loaded.
C7_Witness ==
    \E r \in Slots :
        /\ reqs[r].pc = "done"
        /\ reqs[r].resp.status = 500
        /\ reqs[r].data.isNull
        /\ ~cache.isNull
        /\ now - cache.lastUpdated > CACHE_DURATION
        /\ FileFails

\* A POST has answered a body that is null or not an object.
AnsweredNonObject(r) ==
    /\ reqs[r].pc = "done"
    /\ reqs[r].method = "POST"
    /\ reqs[r].body.type \in {"null", "string", "number", "boolean"}

\* C8 as stated: such a POST is always answered 400 'Invalid input format'.
C8_NonObjectAlways400 ==
    \A r \in Slots :
        AnsweredNonObject(r) =>
            /\ reqs[r].resp.status = 400
            /\ ~reqs[r].resp.success
            /\ reqs[r].resp.error = ErrInvalidInput
            /\ reqs[r].resp.prediction = JsNull

\* C8, amended: such a POST is never answered with a prediction; it is
\* answered 400 'Invalid input format' when the dataset was obtained, and
\* 500 'Failed to generate recommendation' when the load failed, which the
\* handler finds out before it looks at the body.
C8_NonObject400OnceLoaded ==
    \A r \in Slots :
        AnsweredNonObject(r) =>
            /\ ~reqs[r].resp.success
            /\ reqs[r].resp.prediction = JsNull
            /\ IF reqs[r].data.isNull
               THEN reqs[r].resp.status = 500 /\ reqs[r].resp.error = ErrRecommendation
               ELSE reqs[r].resp.status = 400 /\ reqs[r].resp.error = ErrInvalidInput

\* C8's case: null posted, the dataset obtained, 400 answered.
C8_Witness ==
    \E r \in Slots :
        /\ AnsweredNonObject(r)
        /\ reqs[r].body = NullBody
        /\ ~reqs[r].data.isNull
        /\ reqs[r].resp.status = 400

SchemaFetchFailed ==
    /\ fetchPc = "done"
    /\ Len(columns) = 0
    /\ error \in {ErrFormStructure, ErrFetchStructure}

\* C6: when the schema fetch fails the page shows the error instead of
\* staying on 'Loading form structure...'; and the form is shown, and a POST
\* made, only after a GET has returned at least one column.
C6_FetchFailureShown ==
    /\ SchemaFetchFailed => (AlertShown /\ AlertText = error)
    /\ (View = "Form" \/ loading) => (fetchPc = "done" /\ Len(columns) >= 1)

====
